---- MODULE Spec2Model ----
(***************************************************************************)
(* package-checker (src/src/main.rs): reconciles a set of (name, version)  *)
(* requirements against the manifests and lockfiles of a directory tree.   *)
(*                                                                         *)
(* Strings are sequences of one-character strings, so that trimming,       *)
(* prefix parsing, formatting and lexicographic comparison are computed    *)
(* as the code computes them.                                              *)
(***************************************************************************)
EXTENDS Integers, Sequences, FiniteSets, TLC

(***************************************************************************)
(* Characters and strings                                                  *)
(***************************************************************************)

\* The characters that occur in the modelled inputs, in code-point order.
Alphabet == <<"-", ".", "0", "1", "2", "3", "4", "5", "6", "7", "8", "9",
              ":", "@", "^", "a", "b", "c", "d", "e", "f", "l", "p", "r",
              "t", "x", "~">>

Digits == <<"0", "1", "2", "3", "4", "5", "6", "7", "8", "9">>

IsDigit(c) == \E i \in 1..Len(Digits) : Digits[i] = c

DigitVal(c) == (CHOOSE i \in 1..Len(Digits) : Digits[i] = c) - 1

\* Code point order of two characters (u8 comparison of ASCII bytes).
Ord(c) == CHOOSE i \in 1..Len(Alphabet) : Alphabet[i] = c

\* Lexicographic order of strings: Ord for String, as used by sort().
RECURSIVE StrLess(_, _)
StrLess(s, t) ==
    IF t = <<>> THEN FALSE
    ELSE IF s = <<>> THEN TRUE
    ELSE IF Head(s) = Head(t) THEN StrLess(Tail(s), Tail(t))
    ELSE Ord(Head(s)) < Ord(Head(t))

StrLeq(s, t) == s = t \/ StrLess(s, t)

\* Mutant of trim_start_matches: only one leading occurrence is removed.
TrimOnce(s, c) == IF s # <<>> /\ Head(s) = c THEN Tail(s) ELSE s

\* str::trim_start_matches(c): removes every leading occurrence of c.
RECURSIVE trim_start_matches(_, _)
trim_start_matches(s, c) ==
    IF s # <<>> /\ Head(s) = c THEN trim_start_matches(Tail(s), c) ELSE s

\* str::starts_with(c)
starts_with(s, c) == s # <<>> /\ Head(s) = c

\* Option: None is the empty sequence, Some(x) the one-element sequence.
None == <<>>

Some(x) == <<x>>

(***************************************************************************)
(* VersionComparator: parse_version and satisfies_range                    *)
(***************************************************************************)

\* i32::MAX
I32Max == 2147483647

\* Length of the leading run of digits of s (the greedy match of \d+).
RECURSIVE DigitRun(_)
DigitRun(s) ==
    IF s # <<>> /\ IsDigit(Head(s)) THEN 1 + DigitRun(Tail(s)) ELSE 0

\* str::parse::<i32>() of a digit string: -1 stands for Err (overflow).
RECURSIVE ParseI32Acc(_, _)
ParseI32Acc(ds, acc) ==
    IF ds = <<>> THEN acc
    ELSE LET d == DigitVal(Head(ds))
         IN  IF acc > (I32Max - d) \div 10 THEN -1
             ELSE ParseI32Acc(Tail(ds), acc * 10 + d)

\* s.parse().unwrap_or(0)
ParseOrZero(ds) ==
    LET n == ParseI32Acc(ds, 0) IN IF n < 0 THEN 0 ELSE n

\* The match of ^\d+\.\d+\.\d+ at the start of v, as its three digit
\* strings, or None.
MatchTriplet(v) ==
    LET n1 == DigitRun(v)
        r1 == SubSeq(v, n1 + 1, Len(v))
    IN  IF n1 = 0 \/ ~starts_with(r1, ".") THEN None
        ELSE LET n2 == DigitRun(Tail(r1))
                 r2 == SubSeq(r1, n2 + 2, Len(r1))
             IN  IF n2 = 0 \/ ~starts_with(r2, ".") THEN None
                 ELSE LET n3 == DigitRun(Tail(r2))
                      IN  IF n3 = 0 THEN None
                          ELSE Some(<<SubSeq(v, 1, n1),
                                      SubSeq(r1, 2, n2 + 1),
                                      SubSeq(r2, 2, n3 + 1)>>)

parse_version(v) ==
    LET m == MatchTriplet(v)
    IN  IF m = None THEN None
        ELSE Some(<<ParseOrZero(m[1][1]), ParseOrZero(m[1][2]),
                    ParseOrZero(m[1][3])>>)

CaretOk(vt, rt) ==
    vt[1] = rt[1] /\ (vt[2] > rt[2] \/ (vt[2] = rt[2] /\ vt[3] >= 0))

TildeOk(vt, rt) ==
    vt[1] = rt[1] /\ vt[2] = rt[2] /\ vt[3] >= rt[3]

satisfies_range(version0, range) ==
    LET version == trim_start_matches(trim_start_matches(version0, "^"), "~")
        pv == parse_version(version)
    IN  IF pv # None
        THEN IF starts_with(range, "^")
             THEN LET pr == parse_version(trim_start_matches(range, "^"))
                  IN  IF pr # None THEN CaretOk(pv[1], pr[1]) ELSE FALSE
             ELSE IF starts_with(range, "~")
             THEN LET pr == parse_version(trim_start_matches(range, "~"))
                  IN  IF pr # None THEN TildeOk(pv[1], pr[1]) ELSE FALSE
             ELSE version = range
        ELSE FALSE

(***************************************************************************)
(* serde_json::Value                                                       *)
(***************************************************************************)

\* A JSON value: a string, an object (its entries in iteration order), any
\* other value, or the absence of a value (Option::None of Value::get).
JStr(s) == [t |-> "str", s |-> s, m |-> <<>>]

JObj(entries) == [t |-> "obj", s |-> <<>>, m |-> entries]

JOther == [t |-> "other", s |-> <<>>, m |-> <<>>]

JAbsent == [t |-> "absent", s |-> <<>>, m |-> <<>>]

\* Value::get(key): the member of an object, None for anything else.
Get(v, k) ==
    IF v.t = "obj" /\ \E i \in 1..Len(v.m) : v.m[i][1] = k
    THEN v.m[CHOOSE i \in 1..Len(v.m) : v.m[i][1] = k][2]
    ELSE JAbsent

\* Value::as_str()
as_str(v) == IF v.t = "str" THEN Some(v.s) ELSE None

\* Value::as_object(): the entries of an object, in iteration order.
as_object(v) == IF v.t = "obj" THEN Some(v.m) ELSE None

\* Option<&str>::unwrap_or("")
unwrap_or_empty(o) == IF o = None THEN <<>> ELSE o[1]

K_name == <<"n", "a", "m", "e">>

K_version == <<"v", "e", "r", "s", "i", "o", "n">>

K_dependencies == <<"d", "e", "p", "e", "n", "d", "e", "n", "c", "i", "e", "s">>

K_devDependencies == <<"d", "e", "v", "D", "e", "p", "e", "n", "d", "e", "n", "c", "i", "e", "s">>

K_packages == <<"p", "a", "c", "k", "a", "g", "e", "s">>

\* format!("node_modules/{}", name)
NodeModulesKey(name) ==
    <<"n", "o", "d", "e", "_", "m", "o", "d", "u", "l", "e", "s", "/">> \o name

(***************************************************************************)
(* FormatExtractors                                                        *)
(***************************************************************************)

get_pkg_range(name, pkg_json) ==
    IF pkg_json = None THEN <<>>
    ELSE LET data == pkg_json[1]
             inDeps == as_str(Get(Get(data, K_dependencies), name))
             inDev == as_str(Get(Get(data, K_devDependencies), name))
         IN  IF inDeps # None THEN inDeps[1]
             ELSE IF inDev # None THEN inDev[1]
             ELSE <<>>

\* The versions one entry (k, v) of a dependencies object contributes.
EntryVersion(k, v, name) ==
    IF k = name /\ as_str(Get(v, K_version)) # None
    THEN {as_str(Get(v, K_version))[1]}
    ELSE {}

RECURSIVE walk_plock(_, _)
walk_plock(obj, name) ==
    LET deps == as_object(Get(obj, K_dependencies))
    IN  IF deps = None THEN {}
        ELSE UNION {EntryVersion(deps[1][i][1], deps[1][i][2], name)
                      \cup (IF deps[1][i][2].t = "obj"
                            THEN walk_plock(deps[1][i][2], name) ELSE {})
                    : i \in 1..Len(deps[1])}

get_package_lock_versions(name, package_lock_json) ==
    LET flat == as_str(Get(Get(Get(package_lock_json, K_dependencies), name),
                           K_version))
        pkgs == as_str(Get(Get(Get(package_lock_json, K_packages),
                               NodeModulesKey(name)), K_version))
    IN  (IF flat # None THEN {flat[1]} ELSE {})
        \cup (IF pkgs # None THEN {pkgs[1]} ELSE {})
        \cup walk_plock(package_lock_json, name)

RECURSIVE walk_npm(_, _)
walk_npm(obj, name) ==
    LET deps == as_object(Get(obj, K_dependencies))
    IN  IF deps = None THEN {}
        ELSE UNION {EntryVersion(deps[1][i][1], deps[1][i][2], name)
                      \cup walk_npm(deps[1][i][2], name)
                    : i \in 1..Len(deps[1])}

\* A text source (yarn.lock, pnpm-lock.yaml, DEPENDENCIES.json) is held as
\* the result of its scan: the set of <<name, version>> pairs whose patterns
\* occur in it.  Every captured version is a \d+\.\d+\.\d+ match.
ScanVersions(name, content) == {f[2] : f \in {g \in content : g[1] = name}}

get_yarn_versions(name, content) == ScanVersions(name, content)

get_pnpm_versions(name, content) == ScanVersions(name, content)

get_dependencies_versions(name, content) == ScanVersions(name, content)

\* npm ls --json <name> --depth=Infinity: the subprocess's answer is an input
\* (None: failed, or not JSON); its tree is walked for the name.
get_npm_versions(npmOut, name) ==
    IF npmOut = None THEN {} ELSE walk_npm(npmOut[1], name)

(***************************************************************************)
(* main: the per-directory task and the aggregation                        *)
(***************************************************************************)

VARIABLES
    packages,   \* HashSet<(String, String)>: the loaded requirements
    preloads,   \* dir -> Preload, built before the parallel section
    no_npm,     \* args.no_npm
    npm_out,    \* dir -> the answer of the npm subprocess run there
    rows,       \* the Vec behind rows_mutex
    found,      \* the Vec behind found_mutex
    via,        \* history: the code path that pushed each element of rows
    pc,         \* dir -> position of the directory's task
    idx,        \* dir -> index of the current dependency entry
    todo,       \* dir -> the rest of packages.iter() in the resolution loop
    pend,       \* dir -> the found entry the task is about to push
    phase,      \* position of the main thread
    foundOut,   \* the found list as printed
    report,     \* the rows as written to output.csv
    ver,        \* satisfies_range: the discovered version under evaluation
    rng,        \* satisfies_range: the requirement under evaluation
    sat,        \* satisfies_range: the result, once evaluated
    packages_file, \* the requirement file: None when it cannot be opened
    verbose,    \* args.verbose
    lines_read, \* how many lines the lines() iterator has yielded
    stderr,     \* what the loading of the requirements has written to stderr
    rows_mutex, \* the tasks holding the guard of rows_mutex
    found_mutex \* the tasks holding the guard of found_mutex

vars == <<packages, preloads, no_npm, npm_out, rows, found, via, pc, idx,
          todo, pend, phase, foundOut, report, ver, rng, sat, packages_file,
          verbose, lines_read, stderr, rows_mutex, found_mutex>>

progVars == <<packages, preloads, no_npm, npm_out, rows, found, via, pc, idx,
              todo, pend, phase, foundOut, report>>

rangeVars == <<ver, rng, sat>>

loadVars == <<packages_file, verbose, lines_read, stderr>>

lockVars == <<rows_mutex, found_mutex>>

\* Mutant of MutexFree: lock() returns whoever holds the mutex.
MutexFreeAlways(m) == TRUE

\* Mutex::lock returns its guard only once no thread holds the mutex.
MutexFree(m) == m = {}

\* m.lock().unwrap().push(..) can push: the task holds the guard of m, or
\* takes it on the way.
CanPush(m, d) == d \in m \/ MutexFree(m)

\* The guard is a temporary of the statement: dropped at its end.
Unlock(m, d) == m \ {d}

\* The rows tuple (String, String, String, bool, bool, String, String).
Row(pkg, version, loc, mp, mv, dep, depBy) ==
    <<pkg, version, loc, mp, mv, dep, depBy>>

\* format!("{}:{}@{}", d, name, version)
FoundEntry(d, name, version) == d \o <<":">> \o name \o <<"@">> \o version

\* format!("{}@{}", name, version)
DeclaredBy(name, version) == name \o <<"@">> \o version

TagDirect == <<"y", "e", "s">>

TagDev == <<"d", "e", "v">>

\* Mutant of FoundCond: the found push looks at matchPackage alone.
FoundCondPackageOnly(mp, mv) == mp

\* if match_package && match_version { found.push(..) }
FoundCond(mp, mv) == mp /\ mv

RootName(d) ==
    IF preloads[d].pkg_json = None THEN <<>>
    ELSE unwrap_or_empty(as_str(Get(preloads[d].pkg_json[1], K_name)))

RootVersion(d) ==
    IF preloads[d].pkg_json = None THEN <<>>
    ELSE unwrap_or_empty(as_str(Get(preloads[d].pkg_json[1], K_version)))

\* if let Some(data) = pkg_json { .. if !name.is_empty() && !version.is_empty()
RootGate(d) == RootName(d) # <<>> /\ RootVersion(d) # <<>>

\* The entries of a section of the manifest, in iteration order.
Section(d, key) ==
    IF preloads[d].pkg_json = None THEN <<>>
    ELSE unwrap_or_empty(as_object(Get(preloads[d].pkg_json[1], key)))

\* dep_version.as_str().unwrap_or("") with its leading '^'s, then '~'s, cut
DepVersionClean(v) ==
    trim_start_matches(trim_start_matches(unwrap_or_empty(as_str(v)), "^"), "~")

NameMatch(name) == \E p \in packages : p[1] = name

RootMatchVersion(name, version) == <<name, version>> \in packages

DepMatchVersion(name, clean) ==
    \E p \in packages : p[1] = name /\ satisfies_range(clean, p[2])

RootRowOf(d) ==
    Row(RootName(d), RootVersion(d), d, NameMatch(RootName(d)),
        RootMatchVersion(RootName(d), RootVersion(d)), <<>>, <<>>)

DepRowOf(d, key, i, tag) ==
    LET e == Section(d, key)[i]
        clean == DepVersionClean(e[2])
    IN  Row(e[1], clean, d, NameMatch(e[1]), DepMatchVersion(e[1], clean), tag,
            DeclaredBy(RootName(d), RootVersion(d)))

\* all_versions: the union of every source's versions for the name.
AllVersions(d, name) ==
    LET pre == preloads[d]
    IN  (IF pre.yarn # None THEN get_yarn_versions(name, pre.yarn[1]) ELSE {})
        \cup (IF pre.plock # None
              THEN get_package_lock_versions(name, pre.plock[1]) ELSE {})
        \cup (IF pre.pnpm # None THEN get_pnpm_versions(name, pre.pnpm[1]) ELSE {})
        \cup (IF pre.deps # None
              THEN get_dependencies_versions(name, pre.deps[1]) ELSE {})
        \cup (IF ~no_npm THEN get_npm_versions(npm_out[d], name) ELSE {})

\* Mutant of ResolveMatchPackage: the discovered versions are left out.
ResolveMatchPackageRangeOnly(range, all) == range # <<>>

\* let match_package = !rng.is_empty() || !all_versions.is_empty();
ResolveMatchPackage(range, all) == range # <<>> \/ all # {}

\* let match_version = all_versions.iter().any(|v| satisfies_range(v, version));
ResolveMatchVersion(all, version) == \E v \in all : satisfies_range(v, version)

\* Mutant of ResolveRowOf: the row carries the version of some requirement
\* with the name instead of the version of the requirement visited.
ResolveRowOfByName(d, req) ==
    LET all == AllVersions(d, req[1])
        other == CHOOSE p \in packages : p[1] = req[1]
    IN  Row(req[1], other[2], d,
            ResolveMatchPackage(get_pkg_range(req[1], preloads[d].pkg_json), all),
            ResolveMatchVersion(all, req[2]), <<>>, <<>>)

ResolveRowOf(d, req) ==
    LET all == AllVersions(d, req[1])
    IN  Row(req[1], req[2], d,
            ResolveMatchPackage(get_pkg_range(req[1], preloads[d].pkg_json), all),
            ResolveMatchVersion(all, req[2]), <<>>, <<>>)

\* Mutant of ResolveKeeps: every evaluated row is reported.
ResolveKeepsAll(r) == TRUE

\* if !match_package && !match_version { continue; }
ResolveKeeps(r) == r[4] \/ r[5]

\* Where a task goes once a part of its body is finished.
AfterDev(d, i) ==
    IF i < Len(Section(d, K_devDependencies)) THEN <<"dev", i + 1>>
    ELSE <<"resolve", 0>>

AfterDeps(d, i) ==
    IF i < Len(Section(d, K_dependencies)) THEN <<"dep", i + 1>>
    ELSE AfterDev(d, 0)

AfterResolve(d) ==
    IF Tail(todo[d]) = <<>> THEN <<"done", 0>> ELSE <<"resolve", 0>>

Goto(d, pos) == pc' = [pc EXCEPT ![d] = pos[1]] /\ idx' = [idx EXCEPT ![d] = pos[2]]

\* rows_mutex.lock().unwrap().push(row), then either the found push or on.
PushRow(d, r, path, entry, next) ==
    /\ CanPush(rows_mutex, d)
    /\ rows' = Append(rows, r)
    /\ rows_mutex' = Unlock(rows_mutex, d)
    /\ found_mutex' = found_mutex
    /\ via' = Append(via, path)
    /\ IF FoundCond(r[4], r[5])
       THEN /\ pend' = [pend EXCEPT ![d] = <<entry, next>>]
            /\ pc' = [pc EXCEPT ![d] = path \o "Found"]
            /\ idx' = idx
       ELSE /\ pend' = pend
            /\ Goto(d, next)

(***************************************************************************)
(* main: the loading of the requirement file                               *)
(***************************************************************************)

\* Characters with the White_Space property, as far as the inputs use them.
Whitespace == {" ", "\t"}

RECURSIVE trim_start(_)
trim_start(s) ==
    IF s # <<>> /\ Head(s) \in Whitespace THEN trim_start(Tail(s)) ELSE s

RECURSIVE trim_end(_)
trim_end(s) ==
    IF s # <<>> /\ s[Len(s)] \in Whitespace
    THEN trim_end(SubSeq(s, 1, Len(s) - 1)) ELSE s

\* str::trim
trim(s) == trim_end(trim_start(s))

\* str::split(c).collect(): the pieces between the occurrences of c.
RECURSIVE split(_, _)
split(s, c) ==
    IF \A i \in DOMAIN s : s[i] # c THEN <<s>>
    ELSE LET i == CHOOSE j \in DOMAIN s :
                     s[j] = c /\ \A k \in 1..(j - 1) : s[k] # c
         IN  <<SubSeq(s, 1, i - 1)>> \o split(SubSeq(s, i + 1, Len(s)), c)

\* An item of BufReader::lines(): the line without its terminator, or the
\* error of a line that is not UTF-8.
Ok(l) == [ok |-> TRUE, text |-> l]

Err == [ok |-> FALSE, text |-> <<>>]

\* let parts: Vec<&str> = l.trim().split('@').collect();
LineParts(l) == split(trim(l), "@")

\* Mutant of IsRequirement: a line with more than one '@' is taken too.
IsRequirementAtLeastTwo(parts) == Len(parts) >= 2

\* if parts.len() == 2
IsRequirement(parts) == Len(parts) = 2

\* eprintln!("[<level>] ..", about)
Message(level, about) == <<level, about>>

\* The file that lists the requirements of order, one on each line.
FileOf(order) ==
    [i \in DOMAIN order |-> Ok(order[i][1] \o <<"@">> \o order[i][2])]

(***************************************************************************)
(* Inputs                                                                  *)
(***************************************************************************)

\* Largest number of requirements in the requirement file.
MaxReqs == 2

DirA == <<"a">>

DirB == <<"b">>

\* find_dirs: the sorted, duplicate-free directories holding a package.json.
Dirs == {DirA, DirB}

LeftPad == <<"l", "e", "f", "t", "-", "p", "a", "d">>

App == <<"a", "p", "p">>

Xpkg == <<"x">>

\* The version string a.b.c of three one-digit numbers.
V(a, b, c) == <<Digits[a + 1], ".", Digits[b + 1], ".", Digits[c + 1]>>

Caret(v) == <<"^">> \o v

Tilde(v) == <<"~">> \o v

ReqPool ==
    {<<LeftPad, V(1, 3, 0)>>, <<LeftPad, Caret(V(1, 3, 0))>>,
     <<LeftPad, V(2, 0, 0)>>, <<App, V(1, 0, 0)>>}

Manifest(ident, deps, dev) ==
    JObj(ident
         \o (IF deps = <<>> THEN <<>> ELSE <<<<K_dependencies, JObj(deps)>>>>)
         \o (IF dev = <<>> THEN <<>> ELSE <<<<K_devDependencies, JObj(dev)>>>>))

Ident(name, version) == <<<<K_name, JStr(name)>>, <<K_version, JStr(version)>>>>

MDeclares == Manifest(Ident(App, V(1, 0, 0)),
                      <<<<LeftPad, JStr(Caret(V(1, 3, 0)))>>>>, <<>>)

MIsLeftPad == Manifest(Ident(LeftPad, V(1, 3, 0)), <<>>, <<>>)

\* package.json as parsed: None when it is not JSON.
ManifestPool ==
    {None,
     Some(MDeclares),
     Some(Manifest(<<>>, <<<<LeftPad, JStr(Caret(V(1, 3, 0)))>>>>, <<>>)),
     Some(Manifest(<<<<K_name, JStr(App)>>>>,
                   <<<<LeftPad, JStr(Caret(V(1, 3, 0)))>>>>, <<>>)),
     Some(MIsLeftPad),
     Some(Manifest(Ident(App, V(1, 0, 0)),
                   <<<<Xpkg, JStr(V(2, 0, 0))>>>>,
                   <<<<LeftPad, JStr(Tilde(V(1, 3, 0)))>>>>)),
     Some(Manifest(Ident(App, V(1, 0, 0)),
                   <<<<LeftPad, JOther>>>>, <<>>))}

LockNode(version, deps) ==
    JObj(<<<<K_version, JStr(version)>>>>
         \o (IF deps = <<>> THEN <<>> ELSE <<<<K_dependencies, JObj(deps)>>>>))

\* A lock tree recording left-pad 1.3.2 in its top-level dependencies.
LockFlat ==
    JObj(<<<<K_dependencies,
             JObj(<<<<LeftPad, LockNode(V(1, 3, 2), <<>>)>>>>)>>>>)

\* package-lock.json as parsed: None when absent or not JSON.
PlockPool ==
    {None,
     Some(LockFlat),
     Some(JObj(<<<<K_packages,
                   JObj(<<<<NodeModulesKey(LeftPad),
                            LockNode(V(1, 3, 0), <<>>)>>>>)>>>>)),
     Some(JObj(<<<<K_dependencies,
                   JObj(<<<<Xpkg,
                            LockNode(V(2, 0, 0),
                                     <<<<LeftPad,
                                         LockNode(V(1, 3, 2), <<>>)>>>>)>>>>)>>>>))}

\* The scans of the text sources of a directory: yarn, pnpm, DEPENDENCIES.json.
TextPool ==
    {<<None, None, None>>,
     <<Some({<<LeftPad, V(1, 3, 0)>>}), None, Some({})>>,
     <<None, Some({<<LeftPad, V(2, 0, 0)>>}), Some({<<LeftPad, V(1, 3, 0)>>})>>}

Preload(yarn, plock, pnpm, deps, pkg_json) ==
    [yarn |-> yarn, plock |-> plock, pnpm |-> pnpm, deps |-> deps,
     pkg_json |-> pkg_json]

\* What npm ls answers in a directory: None when it fails.
NpmPool ==
    {None,
     Some(JObj(<<<<K_dependencies,
                   JObj(<<<<LeftPad, LockNode(V(1, 3, 0), <<>>)>>>>)>>>>))}

Scenario(pre, skipNpm, npm) == [pre |-> pre, no_npm |-> skipNpm, npm |-> npm]

\* The first directory: every manifest beside the flat lock tree, every
\* combination of sources beside a manifest that declares nothing, and npm.
ScenarioPool ==
    {Scenario(Preload(None, Some(LockFlat), None, None, m), TRUE, None) :
        m \in ManifestPool}
    \cup {Scenario(Preload(t[1], l, t[2], t[3], Some(MIsLeftPad)), TRUE, None) :
            t \in TextPool, l \in PlockPool}
    \cup {Scenario(Preload(None, l, None, None, m), FALSE, n) :
            l \in {None, Some(LockFlat)}, m \in {None, Some(MDeclares)},
            n \in NpmPool}

\* The second directory: a package with the flat lock tree or with nothing.
SiblingPool ==
    {Preload(None, Some(LockFlat), None, None, None),
     Preload(None, None, None, None, Some(Manifest(<<>>, <<>>, <<>>)))}

\* The orders in which iterating a HashSet may yield its elements; every
\* traversal of the unmodified set yields the same one.
IterOrders(S) ==
    {o \in [1..Cardinality(S) -> S] : \A x \in S : \E i \in DOMAIN o : o[i] = x}

\* The state at the start of the parallel section, the first directory drawn
\* from pool.
ProgInitOf(pool) ==
    /\ packages \in {S \in SUBSET ReqPool : S # {} /\ Cardinality(S) <= MaxReqs}
    /\ \E sc \in pool, q \in SiblingPool :
          /\ preloads = [d \in Dirs |-> IF d = DirA THEN sc.pre ELSE q]
          /\ no_npm = sc.no_npm
          /\ npm_out = [d \in Dirs |-> IF d = DirA THEN sc.npm ELSE None]
    /\ rows = <<>>
    /\ found = <<>>
    /\ via = <<>>
    /\ pc = [d \in Dirs |-> "root"]
    /\ idx = [d \in Dirs |-> 0]
    /\ \E order \in IterOrders(packages) : todo = [d \in Dirs |-> order]
    /\ packages_file = Some(FileOf(CHOOSE o \in IterOrders(packages) : TRUE))
    /\ verbose = FALSE
    /\ lines_read = Cardinality(packages)
    /\ stderr = <<>>
    /\ pend = [d \in Dirs |-> <<>>]
    /\ phase = "par"
    /\ foundOut = <<>>
    /\ report = <<>>

ProgInit == ProgInitOf(ScenarioPool)

RangeIdle == ver = <<>> /\ rng = <<>> /\ sat = "idle"

LockInit == rows_mutex = {} /\ found_mutex = {}

Init == ProgInit /\ RangeIdle /\ LockInit

(***************************************************************************)
(* Sorting                                                                 *)
(***************************************************************************)

\* Mutant of RowKey: the location is left out of the sort key.
RowKeyNoLocation(r) == <<r[1], r[2]>>

\* rows.sort_by_key(|r| (r.0.clone(), r.1.clone(), r.2.clone()))
RowKey(r) == <<r[1], r[2], r[3]>>

\* Ord for tuples of strings: lexicographic, component by component.
RECURSIVE KeyLess(_, _)
KeyLess(k1, k2) ==
    IF k1 = <<>> \/ k2 = <<>> THEN k1 = <<>> /\ k2 # <<>>
    ELSE IF Head(k1) = Head(k2) THEN KeyLess(Tail(k1), Tail(k2))
    ELSE StrLess(Head(k1), Head(k2))

\* r placed behind every row of the sorted sequence whose key is not greater.
InsertRow(sorted, r) ==
    LET n == Cardinality({i \in 1..Len(sorted) :
                            ~KeyLess(RowKey(r), RowKey(sorted[i]))})
    IN  SubSeq(sorted, 1, n) \o <<r>> \o SubSeq(sorted, n + 1, Len(sorted))

\* sort_by_key is a stable sort: rows with equal keys keep their order.
RECURSIVE SortRowsAcc(_, _)
SortRowsAcc(rs, acc) ==
    IF rs = <<>> THEN acc ELSE SortRowsAcc(Tail(rs), InsertRow(acc, Head(rs)))

SortRows(rs) == SortRowsAcc(rs, <<>>)

InsertStr(sorted, s) ==
    LET n == Cardinality({i \in 1..Len(sorted) : ~StrLess(s, sorted[i])})
    IN  SubSeq(sorted, 1, n) \o <<s>> \o SubSeq(sorted, n + 1, Len(sorted))

RECURSIVE SortFoundAcc(_, _)
SortFoundAcc(f, acc) ==
    IF f = <<>> THEN acc ELSE SortFoundAcc(Tail(f), InsertStr(acc, Head(f)))

\* found.sort()
SortFound(f) == SortFoundAcc(f, <<>>)

(***************************************************************************)
(* The task of one directory (the closure of dirs.par_iter().for_each)     *)
(***************************************************************************)

RootRow(d) ==
    /\ phase = "par" /\ pc[d] = "root" /\ RootGate(d)
    /\ PushRow(d, RootRowOf(d), "root",
               FoundEntry(d, RootName(d), RootVersion(d)), AfterDeps(d, 0))
    /\ UNCHANGED <<packages, preloads, no_npm, npm_out, found, todo, phase,
                   foundOut, report, rangeVars,
                   loadVars>>

RootSkip(d) ==
    /\ phase = "par" /\ pc[d] = "root" /\ ~RootGate(d)
    /\ Goto(d, <<"resolve", 0>>)
    /\ UNCHANGED <<packages, preloads, no_npm, npm_out, rows, found, via, todo,
                   pend, phase, foundOut, report, rangeVars,
                   loadVars, lockVars>>

DepRow(d) ==
    /\ phase = "par" /\ pc[d] = "dep"
    /\ LET r == DepRowOf(d, K_dependencies, idx[d], TagDirect)
       IN  PushRow(d, r, "dep", FoundEntry(d, r[1], r[2]), AfterDeps(d, idx[d]))
    /\ UNCHANGED <<packages, preloads, no_npm, npm_out, found, todo, phase,
                   foundOut, report, rangeVars,
                   loadVars>>

DevRow(d) ==
    /\ phase = "par" /\ pc[d] = "dev"
    /\ LET r == DepRowOf(d, K_devDependencies, idx[d], TagDev)
       IN  PushRow(d, r, "dev", FoundEntry(d, r[1], r[2]), AfterDev(d, idx[d]))
    /\ UNCHANGED <<packages, preloads, no_npm, npm_out, found, todo, phase,
                   foundOut, report, rangeVars,
                   loadVars>>

ResolveRow(d) ==
    /\ phase = "par" /\ pc[d] = "resolve"
    /\ LET req == Head(todo[d])
       IN  /\ ResolveKeeps(ResolveRowOf(d, req))
           /\ PushRow(d, ResolveRowOf(d, req), "resolve",
                      FoundEntry(d, req[1], req[2]), AfterResolve(d))
    /\ todo' = [todo EXCEPT ![d] = Tail(@)]
    /\ UNCHANGED <<packages, preloads, no_npm, npm_out, found, phase, foundOut,
                   report, rangeVars,
                   loadVars>>

ResolveSkip(d) ==
    /\ phase = "par" /\ pc[d] = "resolve"
    /\ ~ResolveKeeps(ResolveRowOf(d, Head(todo[d])))
    /\ Goto(d, AfterResolve(d))
    /\ todo' = [todo EXCEPT ![d] = Tail(@)]
    /\ UNCHANGED <<packages, preloads, no_npm, npm_out, rows, found, via, pend,
                   phase, foundOut, report, rangeVars,
                   loadVars, lockVars>>

FoundPcs == {"rootFound", "depFound", "devFound", "resolveFound"}

\* found_mutex.lock().unwrap().push(format!("{}:{}@{}", ..))
FoundPush(d) ==
    /\ phase = "par" /\ pc[d] \in FoundPcs
    /\ CanPush(found_mutex, d)
    /\ found' = Append(found, pend[d][1])
    /\ found_mutex' = Unlock(found_mutex, d)
    /\ rows_mutex' = rows_mutex
    /\ Goto(d, pend[d][2])
    /\ pend' = [pend EXCEPT ![d] = <<>>]
    /\ UNCHANGED <<packages, preloads, no_npm, npm_out, rows, via, todo, phase,
                   foundOut, report, rangeVars,
                   loadVars>>

(***************************************************************************)
(* The main thread after the parallel section                              *)
(***************************************************************************)

AllDone == \A d \in Dirs : pc[d] = "done"

\* found_mutex.into_inner(), found.sort(), println
PrintFound ==
    /\ phase = "par" /\ AllDone
    /\ foundOut' = SortFound(found)
    /\ phase' = "printed"
    /\ UNCHANGED <<packages, preloads, no_npm, npm_out, rows, found, via, pc, idx,
                   todo, pend, report, rangeVars,
                   loadVars, lockVars>>

\* rows_mutex.into_inner(), rows.sort_by_key, write_record of every row
WriteCsv ==
    /\ phase = "printed"
    /\ report' = SortRows(rows)
    /\ phase' = "done"
    /\ UNCHANGED <<packages, preloads, no_npm, npm_out, rows, found, via, pc, idx,
                   todo, pend, foundOut, rangeVars,
                   loadVars, lockVars>>

\* csv::Writer::from_path or a write_record fails: main returns the error.
CsvFail ==
    /\ phase = "printed"
    /\ phase' = "failed"
    /\ UNCHANGED <<packages, preloads, no_npm, npm_out, rows, found, via, pc, idx,
                   todo, pend, foundOut, report, rangeVars,
                   loadVars, lockVars>>

Task(d) ==
    \/ RootRow(d)
    \/ RootSkip(d)
    \/ DepRow(d)
    \/ DevRow(d)
    \/ ResolveRow(d)
    \/ ResolveSkip(d)
    \/ FoundPush(d)

Next ==
    \/ \E d \in Dirs : Task(d)
    \/ PrintFound
    \/ WriteCsv
    \/ CsvFail

Spec == Init /\ [][Next]_vars

(***************************************************************************)
(* The run from the requirement file on: the lines are read one by one,    *)
(* then the tasks start.                                                   *)
(***************************************************************************)

\* Largest number of lines of the requirement file.
MaxLines == 2

NotAValidLine ==
    <<"n", "o", "t", "-", "a", "-", "v", "a", "l", "i", "d", "-", "l", "i",
      "n", "e">>

LinePool ==
    {Ok(LeftPad \o <<"@">> \o V(1, 3, 0)),
     Ok(<<" ", "\t">> \o LeftPad \o <<"@">> \o Caret(V(1, 3, 0)) \o <<" ">>),
     Ok(App \o <<"@">> \o V(1, 0, 0)),
     Ok(NotAValidLine),
     Ok(<<>>),
     Ok(LeftPad \o <<"@">> \o V(1, 3, 0) \o <<"@">> \o Xpkg),
     Ok(<<"@">>),
     Err}

\* The requirement file: None when File::open fails.
FilePool ==
    {None} \cup {Some(f) : f \in UNION {[1..n -> LinePool] : n \in 0..MaxLines}}

\* The directories of the runs that start at the requirement file.
LoadPreloads ==
    [d \in Dirs |->
        IF d = DirA
        THEN Preload(None, Some(LockFlat), None, None,
                     Some(Manifest(Ident(App, V(1, 0, 0)),
                                   <<<<Xpkg, JStr(V(2, 0, 0))>>>>,
                                   <<<<LeftPad, JStr(Tilde(V(1, 3, 0)))>>>>)))
        ELSE Preload(None, None, None, None, None)]

LoadInit ==
    /\ packages_file \in FilePool
    /\ verbose \in BOOLEAN
    /\ lines_read = 0
    /\ stderr = <<>>
    /\ packages = {}
    /\ preloads = LoadPreloads
    /\ no_npm = TRUE
    /\ npm_out = [d \in Dirs |-> None]
    /\ rows = <<>>
    /\ found = <<>>
    /\ via = <<>>
    /\ pc = [d \in Dirs |-> "root"]
    /\ idx = [d \in Dirs |-> 0]
    /\ todo = [d \in Dirs |-> <<>>]
    /\ pend = [d \in Dirs |-> <<>>]
    /\ phase = "load"
    /\ foundOut = <<>>
    /\ report = <<>>
    /\ RangeIdle
    /\ LockInit

\* Err(e) of File::open: "[error] Failed to open ..", return Ok(())
OpenFail ==
    /\ phase = "load" /\ packages_file = None
    /\ stderr' = Append(stderr, Message("error", <<>>))
    /\ phase' = "returned"
    /\ UNCHANGED <<packages, preloads, no_npm, npm_out, rows, found, via, pc, idx,
                   todo, pend, foundOut, report, rangeVars, packages_file,
                   verbose, lines_read, lockVars>>

\* The closure of filter_map on the next item of lines().
ReadLine ==
    /\ phase = "load" /\ packages_file # None
    /\ lines_read < Len(packages_file[1])
    /\ LET line == packages_file[1][lines_read + 1]
           parts == LineParts(line.text)
       IN  /\ packages' = IF line.ok /\ IsRequirement(parts)
                          THEN packages \cup {<<parts[1], parts[2]>>}
                          ELSE packages
           /\ stderr' = IF line.ok /\ ~IsRequirement(parts) /\ verbose
                        THEN Append(stderr, Message("warning", line.text))
                        ELSE stderr
    /\ lines_read' = lines_read + 1
    /\ UNCHANGED <<preloads, no_npm, npm_out, rows, found, via, pc, idx, todo,
                   pend, phase, foundOut, report, rangeVars, packages_file,
                   verbose, lockVars>>

EndOfFile ==
    /\ phase = "load" /\ packages_file # None
    /\ lines_read = Len(packages_file[1])

\* if packages.is_empty(): "[error] No valid packages found ..", return Ok(())
NoPackages ==
    /\ EndOfFile /\ packages = {}
    /\ stderr' = Append(stderr, Message("error", <<>>))
    /\ phase' = "returned"
    /\ UNCHANGED <<packages, preloads, no_npm, npm_out, rows, found, via, pc, idx,
                   todo, pend, foundOut, report, rangeVars, packages_file,
                   verbose, lines_read, lockVars>>

\* "[debug] Loaded .." when verbose; the preloads and the two mutexes are
\* built and the tasks start, each iterating packages in the set's order.
StartTasks ==
    /\ EndOfFile /\ packages # {}
    /\ stderr' = IF verbose THEN Append(stderr, Message("debug", <<>>))
                 ELSE stderr
    /\ \E order \in IterOrders(packages) : todo' = [d \in Dirs |-> order]
    /\ phase' = "par"
    /\ UNCHANGED <<packages, preloads, no_npm, npm_out, rows, found, via, pc, idx,
                   pend, foundOut, report, rangeVars, packages_file, verbose,
                   lines_read, lockVars>>

\* The exit status of the process: 0 when main returns Ok(()), 1 when it
\* returns the error, -1 while it runs.
ExitCode ==
    IF phase \in {"returned", "done"} THEN 0
    ELSE IF phase = "failed" THEN 1
    ELSE -1

LoadNext ==
    \/ OpenFail
    \/ ReadLine
    \/ NoPackages
    \/ StartTasks
    \/ Next

SpecLoad == LoadInit /\ [][LoadNext]_vars

(***************************************************************************)
(* The parallel section with the two mutexes in view: taking a guard is a  *)
(* step of its own, and the push that follows drops it.                    *)
(***************************************************************************)

RowPcs == {"root", "dep", "dev", "resolve"}

\* The task is at a statement rows_mutex.lock().unwrap().push(..).
AtRowPush(d) ==
    /\ pc[d] \in RowPcs
    /\ pc[d] = "root" => RootGate(d)
    /\ pc[d] = "resolve" => ResolveKeeps(ResolveRowOf(d, Head(todo[d])))

\* rows_mutex.lock().unwrap()
LockRows(d) ==
    /\ phase = "par" /\ AtRowPush(d)
    /\ d \notin rows_mutex /\ MutexFree(rows_mutex)
    /\ rows_mutex' = rows_mutex \cup {d}
    /\ UNCHANGED <<progVars, rangeVars, loadVars, found_mutex>>

\* found_mutex.lock().unwrap()
LockFound(d) ==
    /\ phase = "par" /\ pc[d] \in FoundPcs
    /\ d \notin found_mutex /\ MutexFree(found_mutex)
    /\ found_mutex' = found_mutex \cup {d}
    /\ UNCHANGED <<progVars, rangeVars, loadVars, rows_mutex>>

\* .push(..) on the guard of rows_mutex, and the end of the statement
RowPushLocked(d) ==
    /\ d \in rows_mutex
    /\ (RootRow(d) \/ DepRow(d) \/ DevRow(d) \/ ResolveRow(d))

\* .push(..) on the guard of found_mutex, and the end of the statement
FoundPushLocked(d) == d \in found_mutex /\ FoundPush(d)

LockTask(d) ==
    \/ LockRows(d)
    \/ RowPushLocked(d)
    \/ LockFound(d)
    \/ FoundPushLocked(d)
    \/ RootSkip(d)
    \/ ResolveSkip(d)

LockNext ==
    \/ \E d \in Dirs : LockTask(d)
    \/ PrintFound
    \/ WriteCsv
    \/ CsvFail

\* The first directory of the runs followed lock by lock: every manifest
\* beside the flat lock tree.
LockScenarioPool ==
    {Scenario(Preload(None, Some(LockFlat), None, None, m), TRUE, None) :
        m \in ManifestPool}

LockRunInit == ProgInitOf(LockScenarioPool) /\ RangeIdle /\ LockInit

SpecLock == LockRunInit /\ [][LockNext]_vars

(***************************************************************************)
(* satisfies_range on its own: the inputs are drawn from bounded sets and  *)
(* one action applies the function.                                        *)
(***************************************************************************)

\* Largest one-digit component of the generated versions and ranges.
MaxNum == 2

\* The digit string of a one-digit number.
NumStr(n) == <<Digits[n + 1]>>

SmallNums == {NumStr(n) : n \in 0..MaxNum}

Ten == <<"1", "0">>

\* 2147483648 = i32::MAX + 1
Big == <<"2", "1", "4", "7", "4", "8", "3", "6", "4", "8">>

Dotted(a, b, c) == a \o <<".">> \o b \o <<".">> \o c

VersionBodies ==
    {Dotted(a, b, c) : a \in SmallNums \cup {Big}, b \in SmallNums \cup {Ten},
                       c \in SmallNums}
    \cup {<<>>, <<"1", ".", "2">>, <<"x", ".", "1", ".", "2">>}

Prefixes == {<<>>, <<"^">>, <<"~">>, <<"^", "^">>, <<"^", "~">>, <<"~", "^">>}

Suffixes == {<<>>, <<"-", "r", "c">>}

VersionPool == {p \o b \o x : p \in Prefixes, b \in VersionBodies, x \in Suffixes}

RangeBodies ==
    {Dotted(a, b, c) : a \in {NumStr(0), NumStr(1), Big}, b \in SmallNums,
                       c \in SmallNums}
    \cup {<<"1", ".", "2">>}

RangePool == {p \o b : p \in {<<>>, <<"^">>, <<"~">>}, b \in RangeBodies}

ProgIdle ==
    /\ packages = {}
    /\ preloads = [d \in Dirs |-> Preload(None, None, None, None, None)]
    /\ no_npm = TRUE
    /\ npm_out = [d \in Dirs |-> None]
    /\ rows = <<>>
    /\ found = <<>>
    /\ via = <<>>
    /\ pc = [d \in Dirs |-> "off"]
    /\ idx = [d \in Dirs |-> 0]
    /\ todo = [d \in Dirs |-> <<>>]
    /\ pend = [d \in Dirs |-> <<>>]
    /\ phase = "off"
    /\ foundOut = <<>>
    /\ report = <<>>
    /\ packages_file = None
    /\ verbose = FALSE
    /\ lines_read = 0
    /\ stderr = <<>>

RangeInit ==
    /\ ProgIdle
    /\ LockInit
    /\ ver \in VersionPool
    /\ rng \in RangePool
    /\ sat = "idle"

Evaluate ==
    /\ sat = "idle" /\ phase = "off"
    /\ sat' = IF satisfies_range(ver, rng) THEN "true" ELSE "false"
    /\ UNCHANGED <<progVars, ver, rng, loadVars, lockVars>>

RangeNext == Evaluate

SpecRange == RangeInit /\ [][RangeNext]_vars

(***************************************************************************)
(* Properties of satisfies_range                                           *)
(***************************************************************************)

\* The length of the run of digits of s that starts at position from.
ClaimRun(s, from) ==
    IF from > Len(s) THEN 0
    ELSE CHOOSE n \in 0..(Len(s) - from + 1) :
            /\ \A k \in from..(from + n - 1) : IsDigit(s[k])
            /\ (from + n > Len(s) \/ ~IsDigit(s[from + n]))

\* The digits.digits.digits triplet s starts with, as digit strings; <<>>
\* when s does not start with one.
ClaimTriplet(s) ==
    LET a == ClaimRun(s, 1)
        b == ClaimRun(s, a + 2)
        c == ClaimRun(s, a + b + 3)
    IN  IF /\ a >= 1 /\ b >= 1 /\ c >= 1
           /\ s[a + 1] = "." /\ s[a + b + 2] = "."
        THEN <<SubSeq(s, 1, a), SubSeq(s, a + 2, a + b + 1),
               SubSeq(s, a + b + 3, a + b + c + 2)>>
        ELSE <<>>

\* A digit string without its leading zeros (one digit is kept).
RECURSIVE ClaimNorm(_)
ClaimNorm(ds) == IF Len(ds) > 1 /\ Head(ds) = "0" THEN ClaimNorm(Tail(ds)) ELSE ds

\* The numbers two digit strings denote, compared without computing them.
NumEq(x, y) == ClaimNorm(x) = ClaimNorm(y)

NumLess(x, y) ==
    LET nx == ClaimNorm(x)
        ny == ClaimNorm(y)
    IN  Len(nx) < Len(ny) \/ (Len(nx) = Len(ny) /\ StrLess(nx, ny))

\* s with its leading range marks removed: the '^'s, then the '~'s.
ClaimUnmarked(s) ==
    LET i == CHOOSE n \in 0..Len(s) :
                /\ \A k \in 1..n : s[k] = "^"
                /\ (n = Len(s) \/ s[n + 1] # "^")
        j == CHOOSE n \in i..Len(s) :
                /\ \A k \in (i + 1)..n : s[k] = "~"
                /\ (n = Len(s) \/ s[n + 1] # "~")
    IN  SubSeq(s, j + 1, Len(s))

\* s with at most one leading character removed, a '^' or a '~'.
ClaimStripOne(s) ==
    IF s # <<>> /\ s[1] \in {"^", "~"} THEN SubSeq(s, 2, Len(s)) ELSE s

\* The a, b, c of a range mark.a.b.c, as digit strings; <<>> for any other.
RangeParts(mark) ==
    IF rng = <<>> \/ rng[1] # mark THEN <<>>
    ELSE LET t == ClaimTriplet(Tail(rng))
         IN  IF t # <<>> /\ Tail(rng) = Dotted(t[1], t[2], t[3]) THEN t ELSE <<>>

Evaluated == sat # "idle"

Satisfied == sat = "true"

\* C2: for a range ^a.b.c, the version satisfies it exactly when the version
\* (read behind its range marks) starts with a major.minor.patch triplet whose
\* major is a and whose minor is at least b.
C2_CaretIff ==
    (Evaluated /\ RangeParts("^") # <<>>) =>
        (Satisfied <=>
            LET vt == ClaimTriplet(ClaimUnmarked(ver))
                rt == RangeParts("^")
            IN  vt # <<>> /\ NumEq(vt[1], rt[1]) /\ ~NumLess(vt[2], rt[2]))

\* C3: for a range ~a.b.c, the version satisfies it exactly when the version
\* (read behind its range marks) starts with a triplet whose major is a,
\* whose minor is b and whose patch is at least c.
C3_TildeIff ==
    (Evaluated /\ RangeParts("~") # <<>>) =>
        (Satisfied <=>
            LET vt == ClaimTriplet(ClaimUnmarked(ver))
                rt == RangeParts("~")
            IN  /\ vt # <<>> /\ NumEq(vt[1], rt[1]) /\ NumEq(vt[2], rt[2])
                /\ ~NumLess(vt[3], rt[3]))

ExactForm == rng = <<>> \/ rng[1] \notin {"^", "~"}

\* C4 as stated: for a requirement that starts with neither '^' nor '~', the
\* version satisfies it exactly when the version with a single leading '^' or
\* '~' removed starts with a triplet and is the same string as the requirement.
C4_ExactSingleStrip ==
    (Evaluated /\ ExactForm) =>
        (Satisfied <=>
            (ClaimTriplet(ClaimStripOne(ver)) # <<>> /\ ClaimStripOne(ver) = rng))

\* C4 as amended: for a requirement that starts with neither '^' nor '~', the
\* version satisfies it exactly when the version with every leading '^' and
\* then every leading '~' removed starts with a triplet and is the same string
\* as the requirement; the evaluation always yields true or false.
C4_ExactAllStrip ==
    /\ Evaluated => sat \in {"true", "false"}
    /\ (Evaluated /\ ExactForm) =>
          (Satisfied <=>
              (ClaimTriplet(ClaimUnmarked(ver)) # <<>> /\ ClaimUnmarked(ver) = rng))

\* An exact-form requirement satisfied by a version behind two range marks.
C4_Witness ==
    /\ Evaluated /\ ExactForm /\ Satisfied
    /\ Len(ver) = Len(rng) + 2

(***************************************************************************)
(* Properties of the run                                                   *)
(***************************************************************************)

Finished == phase = "done"

\* The record's fields by name.
PackageOf(r) == r[1]

VersionOf(r) == r[2]

LocationOf(r) == r[3]

MatchPackage(r) == r[4]

MatchVersion(r) == r[5]

\* location:name@version of a record's own fields.
ClaimFormat(r) == LocationOf(r) \o <<":">> \o PackageOf(r) \o <<"@">> \o VersionOf(r)

\* How often x occurs in the sequence q.
Count(q, x) == Cardinality({i \in 1..Len(q) : q[i] = x})

Range(q) == {q[i] : i \in 1..Len(q)}

\* The manifest of d declares "left-pad": "^1.3.0" among its dependencies.
DeclaresLeftPad(d) ==
    /\ preloads[d].pkg_json # None
    /\ Get(Get(preloads[d].pkg_json[1], K_dependencies), LeftPad)
          = JStr(Caret(V(1, 3, 0)))

\* The nested lock JSON of d records left-pad at version 1.3.2.
LockRecordsLeftPad(d) ==
    /\ preloads[d].plock # None
    /\ V(1, 3, 2) \in get_package_lock_versions(LeftPad, preloads[d].plock[1])

EndToEndCase(d) ==
    /\ DeclaresLeftPad(d) /\ LockRecordsLeftPad(d)
    /\ <<LeftPad, V(1, 3, 0)>> \in packages

\* C1: after a run against left-pad@1.3.0, every directory whose manifest
\* declares "left-pad": "^1.3.0" and whose lock tree records left-pad 1.3.2
\* has a record for left-pad with matchPackage and matchVersion both true,
\* and the found list holds "<dir>:left-pad@1.3.0".
C1_EndToEnd ==
    Finished =>
        \A d \in Dirs :
            EndToEndCase(d) =>
                /\ \E r \in Range(report) :
                      /\ PackageOf(r) = LeftPad /\ LocationOf(r) = d
                      /\ MatchPackage(r) /\ MatchVersion(r)
                /\ FoundEntry(d, LeftPad, V(1, 3, 0)) \in Range(foundOut)

\* C5: in every record pushed, by whichever path, matchVersion implies
\* matchPackage.
C5_VersionImpliesPackage ==
    \A r \in Range(rows) \cup Range(report) : MatchVersion(r) => MatchPackage(r)

\* Records of a resolution with both flags true and with matchPackage alone.
C5_Witness ==
    /\ \E i \in 1..Len(rows) :
          via[i] = "resolve" /\ MatchVersion(rows[i]) /\ MatchPackage(rows[i])
    /\ \E i \in 1..Len(rows) :
          via[i] = "resolve" /\ ~MatchVersion(rows[i]) /\ MatchPackage(rows[i])
    /\ \E i \in 1..Len(rows) : via[i] = "dep" /\ MatchVersion(rows[i])

BothTrue(r) == MatchPackage(r) /\ MatchVersion(r)

\* C6: once the run has finished, the found list holds one entry
\* location:name@version for each record of the report whose flags are both
\* true, nothing else, and is sorted.
C6_FoundIsBothTrue ==
    Finished =>
        /\ \A i \in 1..Len(foundOut), j \in 1..Len(foundOut) :
              i < j => StrLeq(foundOut[i], foundOut[j])
        /\ \A e \in Range(foundOut) \cup {ClaimFormat(r) : r \in Range(report)} :
              Count(foundOut, e)
                = Cardinality({i \in 1..Len(report) :
                                 BothTrue(report[i]) /\ ClaimFormat(report[i]) = e})

\* A finished run with two different found entries and a record that is not
\* found.
C6_Witness ==
    /\ Finished
    /\ Cardinality(Range(foundOut)) >= 2
    /\ \E r \in Range(report) : ~BothTrue(r)

\* The requirements in one fixed order.
RECURSIVE CanonReqs(_)
CanonReqs(S) ==
    IF S = {} THEN <<>>
    ELSE LET m == CHOOSE x \in S : \A y \in S \ {x} : KeyLess(x, y)
         IN  <<m>> \o CanonReqs(S \ {m})

\* The rows a directory's task pushes when it runs alone, the requirements
\* visited in the fixed order.
AloneRows(d) ==
    (IF RootGate(d)
     THEN <<RootRowOf(d)>>
          \o [i \in 1..Len(Section(d, K_dependencies)) |->
                DepRowOf(d, K_dependencies, i, TagDirect)]
          \o [i \in 1..Len(Section(d, K_devDependencies)) |->
                DepRowOf(d, K_devDependencies, i, TagDev)]
     ELSE <<>>)
    \o SelectSeq([i \in 1..Cardinality(packages) |->
                    ResolveRowOf(d, CanonReqs(packages)[i])], ResolveKeeps)

OneByOneRows == AloneRows(DirA) \o AloneRows(DirB)

OneByOneFound ==
    LET both == SelectSeq(OneByOneRows, BothTrue)
    IN  [i \in 1..Len(both) |-> ClaimFormat(both[i])]

\* C7: whatever the interleaving of the tasks and the order in which a task
\* visits the requirements, the sorted report and the sorted found list are
\* those of the run in which the tasks run one after the other.
C7_Deterministic ==
    Finished =>
        /\ report = SortRows(OneByOneRows)
        /\ foundOut = SortFound(OneByOneFound)

\* A finished run whose rows were pushed in another order than one by one,
\* and whose report holds two records with the same key.
C7_Witness ==
    /\ Finished
    /\ rows # OneByOneRows
    /\ \E i \in 1..Len(report), j \in 1..Len(report) :
          i < j /\ RowKey(report[i]) = RowKey(report[j])

\* The record the claim expects of entry i of a section of d's manifest.
ClaimDepRow(d, key, i, tag) ==
    LET e == Section(d, key)[i]
        clean == ClaimUnmarked(unwrap_or_empty(as_str(e[2])))
    IN  <<e[1], clean, d,
          \E p \in packages : p[1] = e[1],
          \E p \in packages : p[1] = e[1] /\ satisfies_range(clean, p[2]),
          tag, RootName(d) \o <<"@">> \o RootVersion(d)>>

\* C8: once every task has completed, each entry of the dependencies map of
\* a present manifest has exactly one record tagged direct, and each entry of
\* its devDependencies map exactly one tagged dev, with the declaring root,
\* the stripped version and the two flags as the walk defines them.
C8_EveryEntryOneRecord ==
    AllDone =>
        \A d \in Dirs :
            preloads[d].pkg_json # None =>
                /\ \A i \in 1..Len(Section(d, K_dependencies)) :
                      Count(rows, ClaimDepRow(d, K_dependencies, i, TagDirect)) = 1
                /\ \A i \in 1..Len(Section(d, K_devDependencies)) :
                      Count(rows, ClaimDepRow(d, K_devDependencies, i, TagDev)) = 1

SameTriple(r, q) ==
    LocationOf(r) = LocationOf(q) /\ PackageOf(r) = PackageOf(q)
    /\ VersionOf(r) = VersionOf(q)

\* C9 as stated: in the final report no two records share (location,
\* package, version), and the found list has no repeated entry.
C9_OncePerTriple ==
    Finished =>
        /\ \A i \in 1..Len(report), j \in 1..Len(report) :
              SameTriple(report[i], report[j]) => i = j
        /\ \A e \in Range(foundOut) : Count(foundOut, e) = 1

\* No two records pushed by the same code path share (location, package,
\* version).
OncePerPath ==
    \A i \in 1..Len(rows), j \in 1..Len(rows) :
        (via[i] = via[j] /\ SameTriple(rows[i], rows[j])) => i = j

\* The record list changes by one push at its end, or not at all.
AppendOnly ==
    \/ rows' = rows
    \/ /\ Len(rows') = Len(rows) + 1
       /\ SubSeq(rows', 1, Len(rows)) = rows

\* C9 as amended: each code path (root row, dependency rows, devDependency
\* rows, resolution rows) pushes at most one record per (location, package,
\* version), and a pushed record is never changed or removed: records of
\* different paths may share the triple.
C9_OncePerPath == []OncePerPath /\ [][AppendOnly]_vars

\* A dependency row and a resolution row with the same triple.
C9_Witness ==
    \E i \in 1..Len(rows), j \in 1..Len(rows) :
        /\ via[i] = "dep" /\ via[j] = "resolve"
        /\ SameTriple(rows[i], rows[j])

\* C10 as stated: every record of the final report has matchPackage or
\* matchVersion true.
C10_UniformFilter ==
    Finished => \A r \in Range(report) : MatchPackage(r) \/ MatchVersion(r)

\* C10 as amended: the filter is the resolution loop's alone: every record it
\* pushes has matchPackage or matchVersion true, and a requirement with
\* neither leaves no resolution record; root and dependency rows are pushed
\* whatever their flags.
C10_ResolutionFilter ==
    /\ \A i \in 1..Len(rows) :
          via[i] = "resolve" => (MatchPackage(rows[i]) \/ MatchVersion(rows[i]))
    /\ AllDone =>
          \A d \in Dirs, req \in packages :
              (\E i \in 1..Len(rows) :
                  via[i] = "resolve" /\ rows[i] = ResolveRowOf(d, req))
              <=> (get_pkg_range(req[1], preloads[d].pkg_json) # <<>>
                   \/ AllVersions(d, req[1]) # {})

\* A finished run in which a requirement was discarded in a directory and a
\* dependency row with neither flag was reported.
C10_Witness ==
    /\ Finished
    /\ \E d \in Dirs, req \in packages :
          \A i \in 1..Len(rows) :
              ~(via[i] = "resolve" /\ rows[i][3] = d /\ rows[i][1] = req[1])
    /\ \E i \in 1..Len(rows) :
          via[i] = "dep" /\ ~MatchPackage(rows[i]) /\ ~MatchVersion(rows[i])

(***************************************************************************)
(* Properties of the loading of the requirements                           *)
(***************************************************************************)

\* How many '@' a line holds.
AtCount(l) == Cardinality({i \in DOMAIN l : l[i] = "@"})

\* The line without the blanks around it.
ClaimTrim(l) ==
    LET ink == {i \in DOMAIN l : l[i] \notin {" ", "\t"}}
    IN  IF ink = {} THEN <<>>
        ELSE SubSeq(l, CHOOSE i \in ink : \A j \in ink : i <= j,
                       CHOOSE i \in ink : \A j \in ink : i >= j)

\* (name, version) of a line with one '@': what stands before and behind it.
ClaimReq(l) ==
    LET t == ClaimTrim(l)
        at == CHOOSE i \in DOMAIN t : t[i] = "@"
    IN  <<SubSeq(t, 1, at - 1), SubSeq(t, at + 1, Len(t))>>

\* The lines read so far.
LinesRead ==
    IF packages_file = None THEN <<>> ELSE SubSeq(packages_file[1], 1, lines_read)

\* A line the claim takes for a requirement: non-empty, exactly one '@'.
ClaimValid(line) == line.ok /\ AtCount(line.text) = 1

\* A line of text the claim has skipped.
ClaimInvalidText(line) == line.ok /\ AtCount(line.text) # 1

IsWarning(m) == m[1] = "warning"

ClaimLoaded == {ClaimReq(line.text) : line \in {x \in Range(LinesRead) : ClaimValid(x)}}

\* C11 as stated (name and version read off the line without the blanks
\* around it, lines that are not text left aside): the loaded requirements
\* are those of the lines with exactly one '@', every other line of text
\* has left a warning, a file with a valid line
\* is not answered by the early return, and the exit status is never other
\* than zero.
C11_SkippedWithWarning ==
    /\ packages = ClaimLoaded
    /\ Len(SelectSeq(stderr, IsWarning))
          = Len(SelectSeq(LinesRead, ClaimInvalidText))
    /\ (ClaimLoaded # {} => phase # "returned")
    /\ ExitCode \in {-1, 0}

\* What the skipped lines leave on stderr: one warning for each line that
\* is text without exactly one '@', in the file's order, when verbose.
ClaimWarnings ==
    LET skipped == SelectSeq(LinesRead, ClaimInvalidText)
    IN  IF verbose THEN [i \in DOMAIN skipped |-> <<"warning", skipped[i].text>>]
        ELSE <<>>

LoadedAsClaimed ==
    /\ packages = ClaimLoaded
    /\ SelectSeq(stderr, IsWarning) = ClaimWarnings
    /\ (ClaimLoaded # {} => phase # "returned")

OnlyReportFails == ExitCode' = 1 => phase = "printed"

\* C11 as amended: a line is loaded as (name, version) iff it is text that,
\* without the blanks around it, holds exactly one '@'; every other line is
\* skipped, with a warning only when verbose is set and the line is text,
\* and never ends the run; the exit status is zero unless the writing of the
\* report fails.
C11_SkippedWarnedIfVerbose == []LoadedAsClaimed /\ [][OnlyReportFails]_vars

\* The file of the claim, read with verbose set: one requirement loaded, one
\* warning, the run finished with exit status zero.
C11_Witness ==
    /\ packages_file = Some(<<Ok(NotAValidLine), Ok(LeftPad \o <<"@">> \o V(1, 3, 0))>>)
    /\ verbose
    /\ packages = {<<LeftPad, V(1, 3, 0)>>}
    /\ SelectSeq(stderr, IsWarning) = <<<<"warning", NotAValidLine>>>>
    /\ phase = "done" /\ ExitCode = 0

(***************************************************************************)
(* Properties of the locking and of the join                               *)
(***************************************************************************)

\* The collection has grown by one element at its end.
Pushed(old, new) ==
    Len(new) = Len(old) + 1 /\ SubSeq(new, 1, Len(old)) = old

\* The position of a task in its body.
PlaceOf(d) == <<pc[d], idx[d], todo[d]>>

\* A step seen from one mutex m (m2 after the step) and its collection c
\* (c2 after the step): a task takes the guard only when no task holds it
\* and pushes nothing in that step; it gives the guard up in the step of its
\* one push; between the two it stands still; and nothing is pushed by a
\* task that does not hold the guard.
GuardedStep(m, m2, c, c2) ==
    /\ \A d \in Dirs :
          /\ (d \notin m /\ d \in m2) => (m = {} /\ c2 = c)
          /\ (d \in m /\ d \in m2) => (PlaceOf(d)' = PlaceOf(d) /\ c2 = c)
          /\ (d \in m /\ d \notin m2) => (m = {d} /\ Pushed(c, c2))
    /\ c2 # c => \E d \in Dirs : m = {d} /\ m2 = {}

PushesUnderLock ==
    /\ GuardedStep(rows_mutex, rows_mutex', rows, rows')
    /\ GuardedStep(found_mutex, found_mutex', found, found')
    /\ rows' # rows => LocationOf(rows'[Len(rows')]) \in rows_mutex

\* Each mutex has at most one holder, and no task holds both.
OneHolder ==
    /\ Cardinality(rows_mutex) <= 1
    /\ Cardinality(found_mutex) <= 1
    /\ rows_mutex \cap found_mutex = {}

\* The same elements, each as many times.
SameBag(q1, q2) ==
    \A x \in Range(q1) \cup Range(q2) : Count(q1, x) = Count(q2, x)

\* Once the main thread is past the parallel section every task is done and
\* no guard is left; the record list then holds what the tasks have pushed,
\* each record once, and the report holds the same records.
JoinedBeforeAggregation ==
    phase # "par" =>
        /\ AllDone /\ rows_mutex = {} /\ found_mutex = {}
        /\ SameBag(rows, OneByOneRows)
        /\ SameBag(found, OneByOneFound)
        /\ phase = "done" => SameBag(report, rows)

\* C12: every append to the record list and to the found list happens while
\* exactly one task, the one that appends, holds that list's lock; the lock
\* is held for that one push only and no task holds both locks; the
\* aggregation starts only after every task has completed, and the record
\* list then contains each record pushed by a task exactly once, none lost
\* and none removed.
C12_LockedPushesThenJoin ==
    /\ [](OneHolder /\ JoinedBeforeAggregation)
    /\ [][PushesUnderLock]_vars

\* One task holds the guard of the record list with records already pushed,
\* while the other is at a push to the record list and waits for the guard.
C12_Witness ==
    /\ phase = "par" /\ Len(rows) > 0
    /\ rows_mutex = {DirA}
    /\ AtRowPush(DirB) /\ DirB \notin rows_mutex
    /\ DirA \notin found_mutex

====
